---- MODULE Spec2Model ----
(***************************************************************************)
(* A model of webX: the PlaywrightManager render pool                      *)
(* (src/webX/playwright_manager.py) driven by the lifespan handler         *)
(* (src/webX/main.py) and by request coroutines calling run_in_page, and   *)
(* the fetch orchestration of src/webX/api_router.py.                      *)
(*                                                                         *)
(* asyncio is cooperative: the code between two awaits that really         *)
(* suspend runs atomically.  Every action below is one such segment: it    *)
(* resumes a coroutine at the await it is suspended on (with the outcome   *)
(* of the awaited call drawn nondeterministically) and runs it to its next *)
(* suspension.  Acquiring a free asyncio.Lock or Semaphore does not        *)
(* suspend, so it is part of the segment that reaches it.                  *)
(***************************************************************************)
EXTENDS Integers, Sequences, FiniteSets, TLC

\* ----------------------------------------------------------------- bounds
NumOps == 2          \* request coroutines that call run_in_page
MaxCalls == 3        \* run_in_page calls made in one behaviour
MaxCancels == 1      \* cancellations delivered in one behaviour
MaxFaults == 1       \* browser calls that raise though they could succeed
MaxCtx == 4          \* BrowserContext objects referenced at one time
MaxHandles == 2      \* Playwright / Browser objects referenced at one time
max_concurrency == 1 \* settings.max_concurrency (configuration)
MaxStubs == 2        \* result stubs the upstream search returns

\* ------------------------------------------------------ program constants
PoolCap == 10
InitialPoolTarget == 10
_max_context_reuse == 2

Min(a, b) == IF a < b THEN a ELSE b
Range(f) == {f[i] : i \in DOMAIN f}

_max_pool_size == Min(max_concurrency * 2, PoolCap)
initial_pool_size == Min(InitialPoolTarget, _max_pool_size)

Lifespan == 0
Ops == 1..NumOps
Procs == 0..NumOps
NoProc == -1
CtxIds == 1..MaxCtx
HandleIds == 1..MaxHandles

VARIABLES
  _started,              \* self._started
  _playwright,           \* self._playwright: 0 is None
  _browser,              \* self._browser: 0 is None
  _semaphore,            \* free slots of self._semaphore
  _start_lock,           \* holder of self._start_lock, or NoProc
  _pool_lock,            \* holder of self._pool_lock, or NoProc
  _context_pool,         \* self._context_pool
  _context_usage_count,  \* self._context_usage_count: a dict keyed by context
  pwAlive,               \* Playwright drivers started and not stopped
  brAlive,               \* browsers launched and not closed
  ctxClosed,             \* contexts closed (by close() or with their browser)
  owner,                 \* the browser each referenced context was created by
  pc,                    \* where each coroutine is suspended
  lphase,                \* lifespan: "start" before the yield, "stop" after
  ctx,                   \* run_in_page's local `context` (0 is None)
  page,                  \* run_in_page's local `page`: none, open, closed
  todo,                  \* _cleanup_context_pool: contexts of the copy left
  k,                     \* _initialize_context_pool: iterations left
  h,                     \* the object the awaited call was issued on
  res,                   \* how the run_in_page call ended
  rel,                   \* what became of the checked-out context
  stopMark,              \* the call was made "after" stop() returned, or was
                         \* waiting or acquiring ("during") when it returned
  calls,                 \* run_in_page calls still to be made
  cancels,               \* cancellations still to be delivered
  faults                 \* failures of browser calls still to happen

mvars == <<_started, _playwright, _browser, _semaphore, _start_lock, _pool_lock,
           _context_pool, _context_usage_count, pwAlive, brAlive, ctxClosed,
           owner, pc, lphase, ctx, page, todo, k, h, res, rel, stopMark, calls,
           cancels, faults>>

\* ---- api_router.py: one search_view request
VARIABLES
  mode,      \* search_view's mode
  data,      \* the upstream's results
  epc,       \* search_view: request, gather, done
  tasks,     \* the coroutines handed to asyncio.gather
  snippets,  \* SearchResponse.snippets
  raised     \* the response came from an except branch of search_view

evars == <<mode, data, epc, tasks, snippets, raised>>
vars == <<mvars, evars>>

\* The state as one record, so that a segment is a function on it.
Cur ==
  [started |-> _started, playwright |-> _playwright, browser |-> _browser,
   sem |-> _semaphore, start_lock |-> _start_lock, pool_lock |-> _pool_lock,
   pool |-> _context_pool, count |-> _context_usage_count,
   pwAlive |-> pwAlive, brAlive |-> brAlive, ctxClosed |-> ctxClosed,
   owner |-> owner, pc |-> pc, lphase |-> lphase, ctx |-> ctx, page |-> page,
   todo |-> todo, k |-> k, h |-> h, res |-> res, rel |-> rel,
   stopMark |-> stopMark, calls |-> calls, cancels |-> cancels,
   faults |-> faults]

\* ---------------------------------------------------- object references
\* Python objects no variable refers to any more are garbage; their
\* identifiers are free to name new objects.
CtxHPcs == {"get_close"}
BrHPcs == {"start_ctx", "get_create", "cl_browser"}
PwHPcs == {"start_launch", "cl_pw"}

RefCtx(s) ==
  Range(s.pool) \cup DOMAIN s.count
    \cup {s.ctx[p] : p \in {q \in Procs : s.ctx[q] # 0}}
    \cup UNION {Range(s.todo[p]) : p \in Procs}
    \cup {s.h[p] : p \in {q \in Procs : s.pc[q] \in CtxHPcs}}

RefBr(s) ==
  ({s.browser} \cup {s.owner[c] : c \in RefCtx(s)}
     \cup {s.h[p] : p \in {q \in Procs : s.pc[q] \in BrHPcs}}) \ {0}

RefPw(s) ==
  ({s.playwright} \cup {s.h[p] : p \in {q \in Procs : s.pc[q] \in PwHPcs}}) \ {0}

FreeCtx(s) == CtxIds \ RefCtx(s)
FreeBr(s) == HandleIds \ RefBr(s)
FreePw(s) == HandleIds \ RefPw(s)
Fresh(S) == CHOOSE x \in S : \A y \in S : x <= y

\* Forget what is known of unreferenced objects and clear the locals of the
\* frames that have returned.
Norm(s) ==
  [s EXCEPT
     !.ctxClosed = s.ctxClosed \cap RefCtx(s),
     !.owner = [c \in CtxIds |-> IF c \in RefCtx(s) THEN s.owner[c] ELSE 0],
     !.brAlive = s.brAlive \cap RefBr(s),
     !.pwAlive = s.pwAlive \cap RefPw(s),
     !.h = [p \in Procs |->
              IF s.pc[p] \in CtxHPcs \cup BrHPcs \cup PwHPcs THEN s.h[p] ELSE 0],
     !.k = [p \in Procs |-> IF s.pc[p] = "start_ctx" THEN s.k[p] ELSE 0]]

Commit(t) ==
  \E s \in {Norm(t)} :
  /\ _started' = s.started
  /\ _playwright' = s.playwright
  /\ _browser' = s.browser
  /\ _semaphore' = s.sem
  /\ _start_lock' = s.start_lock
  /\ _pool_lock' = s.pool_lock
  /\ _context_pool' = s.pool
  /\ _context_usage_count' = s.count
  /\ pwAlive' = s.pwAlive
  /\ brAlive' = s.brAlive
  /\ ctxClosed' = s.ctxClosed
  /\ owner' = s.owner
  /\ pc' = s.pc
  /\ lphase' = s.lphase
  /\ ctx' = s.ctx
  /\ page' = s.page
  /\ todo' = s.todo
  /\ k' = s.k
  /\ h' = s.h
  /\ res' = s.res
  /\ rel' = s.rel
  /\ stopMark' = s.stopMark
  /\ calls' = s.calls
  /\ cancels' = s.cancels
  /\ faults' = s.faults
  /\ UNCHANGED evars

\* A browser call raises: of its own accord (one of the failures to
\* happen), or because the object it was issued on is gone.
MayFail(ok, can) == ok \/ ~can \/ faults > 0
Charge(t, ok, can) ==
  IF ok \/ ~can THEN t ELSE [t EXCEPT !.faults = t.faults - 1]

DictDel(d, c) == [x \in (DOMAIN d) \ {c} |-> d[x]]
DictSet(d, c, v) == [x \in (DOMAIN d) \cup {c} |-> IF x = c THEN v ELSE d[x]]
EmptyDict == [x \in {} |-> 0]

\* ------------------------------------------------------------ run_in_page
\* The call ends: the frame's locals die; a context still held is lost.
Finish(s, p, r) ==
  [s EXCEPT !.pc[p] = "done", !.res[p] = r, !.ctx[p] = 0,
            !.rel[p] = IF s.rel[p] = "held" THEN "leaked" ELSE s.rel[p]]

\* Leaving `async with self._semaphore` (line 230), on every path.
ExitSemaphore(s, p) == Finish([s EXCEPT !.sem = s.sem + 1], p, s.res[p])

\* if context in self._context_usage_count: ... += 1  (lines 133-134)
IncrementUse(count, c) ==
  IF c \in DOMAIN count THEN [count EXCEPT ![c] = count[c] + 1] ELSE count

\* if len(self._context_pool) < self._max_pool_size  (line 135)
PoolHasRoom(pool) == Len(pool) < _max_pool_size

\* _return_context_to_pool under the lock (lines 129-143), to its first await.
ReturnLocked(s, p) ==
  LET c == s.ctx[p]
      s1 == [s EXCEPT !.count = IncrementUse(s.count, c)]
  IN IF PoolHasRoom(s1.pool)
       THEN ExitSemaphore([s1 EXCEPT !.pool = Append(s1.pool, c),
                                     !.pool_lock = NoProc,
                                     !.rel[p] = "pool", !.ctx[p] = 0], p)
       ELSE [s1 EXCEPT !.pc[p] = "ret_close"]

\* _release_context (lines 203-209): context_from_pool is True whenever
\* context is set (lines 237-238 have no await between them), so the else
\* branch (lines 211-214) is never taken.
ReleaseContext(s, p) ==
  IF s.ctx[p] # 0
    THEN IF s.pool_lock = NoProc
           THEN ReturnLocked([s EXCEPT !.pool_lock = p], p)
           ELSE [s EXCEPT !.pc[p] = "ret_wait"]
    ELSE ExitSemaphore(s, p)

\* The finally block (lines 268-272).
Finally(s, p) ==
  IF s.page[p] = "open" THEN [s EXCEPT !.pc[p] = "close_page"]
  ELSE ReleaseContext(s, p)

\* context = await self._get_context_from_pool(); context_from_pool = True;
\* page = await context.new_page()   (lines 237-240)
GotContext(s, p, c) ==
  [s EXCEPT !.ctx[p] = c, !.rel[p] = "held", !.pc[p] = "new_page"]

\* The reuse test of lines 105-108.
WithinBudget(s, c) ==
  c \notin DOMAIN s.count \/ s.count[c] < _max_context_reuse

\* _get_context_from_pool under the lock (lines 100-124), to its first await.
GetLocked(s, p) ==
  IF s.pool # <<>>
    THEN LET c == Head(s.pool)
             s1 == [s EXCEPT !.pool = Tail(s.pool)]
         IN IF WithinBudget(s, c)
              THEN GotContext([s1 EXCEPT !.pool_lock = NoProc], p, c)
              ELSE [s1 EXCEPT !.pc[p] = "get_close", !.h[p] = c]
    ELSE IF s.browser = 0
           \* self._browser.new_context on None: AttributeError (line 84)
           THEN ExitSemaphore([s EXCEPT !.pool_lock = NoProc,
                                        !.res[p] = "error"], p)
           ELSE [s EXCEPT !.pc[p] = "get_create", !.h[p] = s.browser]

\* async with self._pool_lock (line 98)
GetContext(s, p) ==
  IF s.pool_lock = NoProc THEN GetLocked([s EXCEPT !.pool_lock = p], p)
  ELSE [s EXCEPT !.pc[p] = "get_wait"]

SlotFreeOffByOne(s) == s.sem >= 0

\* asyncio.Semaphore.acquire does not block while a slot is free.
SlotFree(s) == s.sem > 0

\* async with self._semaphore (line 230)
SemEnter(s, p) ==
  IF SlotFree(s) THEN GetContext([s EXCEPT !.sem = s.sem - 1], p)
  ELSE [s EXCEPT !.pc[p] = "sem_wait"]

\* The second check (lines 227-228), then the semaphore.
AfterStart(s, p) ==
  IF s.browser = 0 THEN Finish(s, p, "init_error") ELSE SemEnter(s, p)

\* ------------------------------------------------------------------ start
\* start() returns (ok) or re-raises (line 66); the lock is released.
\* lifespan catches the failure (main.py lines 16-21) and yields;
\* run_in_page lets it propagate to its caller.
StartReturn(s, p, ok) ==
  LET s1 == [s EXCEPT !.start_lock = NoProc] IN
  IF p = Lifespan THEN [s1 EXCEPT !.pc[p] = "serving"]
  ELSE IF ok THEN AfterStart(s1, p) ELSE Finish(s1, p, "init_error")

\* Ops that are waiting for a slot or acquiring a context.
AcquiringPcs == {"sem_wait", "get_wait", "get_close", "get_create"}

\* self._started = False (line 169); then stop() returns, or start() re-raises.
CleanupDone(s, p) ==
  LET s1 == [s EXCEPT !.started = FALSE] IN
  IF p = Lifespan /\ s.lphase = "stop"
    THEN [s1 EXCEPT !.pc[p] = "stopped",
                    !.stopMark = [q \in Procs |->
                                    IF s.pc[q] \in AcquiringPcs THEN "during"
                                    ELSE s.stopMark[q]]]
    ELSE StartReturn(s1, p, FALSE)

\* if self._playwright: await self._playwright.stop()  (lines 162-165)
CleanupPlaywright(s, p) ==
  IF s.playwright # 0
    THEN [s EXCEPT !.pc[p] = "cl_pw", !.h[p] = s.playwright]
    ELSE CleanupDone(s, p)

\* clear() both collections, leave the lock (lines 180-182), then
\* if self._browser: await self._browser.close()  (lines 155-158)
CleanupClear(s, p) ==
  LET s1 == [s EXCEPT !.pool = <<>>, !.count = EmptyDict,
                      !.pool_lock = NoProc, !.todo[p] = <<>>]
  IN IF s1.browser # 0
       THEN [s1 EXCEPT !.pc[p] = "cl_browser", !.h[p] = s1.browser]
       ELSE CleanupPlaywright(s1, p)

\* for context in self._context_pool[:]: await context.close() (lines 174-178)
CleanupLoop(s, p) ==
  IF s.todo[p] # <<>> THEN [s EXCEPT !.pc[p] = "cl_ctx"]
  ELSE CleanupClear(s, p)

\* _cleanup_partial_init -> _cleanup_context_pool: async with self._pool_lock
CleanupEnter(s, p) ==
  IF s.pool_lock = NoProc
    THEN CleanupLoop([s EXCEPT !.pool_lock = p, !.todo[p] = s.pool], p)
    ELSE [s EXCEPT !.pc[p] = "cl_wait"]

\* except Exception: await self._cleanup_partial_init(); raise (lines 63-66)
StartFail(s, p) == CleanupEnter(s, p)

\* The loop of _initialize_context_pool (lines 72-75) with n iterations left.
InitPoolNext(s, p, n) ==
  IF n = 0 THEN StartReturn(s, p, TRUE)
  ELSE IF s.browser = 0 THEN StartFail(s, p)   \* None.new_context (line 84)
  ELSE [s EXCEPT !.pc[p] = "start_ctx", !.h[p] = s.browser, !.k[p] = n]

AlreadyRunningInverted(s) == s.started /\ s.browser = 0

\* if self._started and self._browser is not None: return  (lines 36-37)
AlreadyRunning(s) == s.started /\ s.browser # 0

\* start() once it holds the lock (lines 36-44).
StartLocked(s, p) ==
  IF AlreadyRunning(s)
    THEN StartReturn(s, p, TRUE)
    ELSE [s EXCEPT !.started = FALSE, !.pc[p] = "start_pw"]

\* async with self._start_lock (line 35)
StartEnter(s, p) ==
  IF s.start_lock = NoProc THEN StartLocked([s EXCEPT !.start_lock = p], p)
  ELSE [s EXCEPT !.pc[p] = "start_wait"]

\* run_in_page's first check and lazy start (lines 222-224).
RunInPageEnter(s, p) ==
  IF ~s.started \/ s.browser = 0 THEN StartEnter(s, p) ELSE AfterStart(s, p)

\* ---------------------------------------------------------------- actions
MInit ==
  /\ _started = FALSE
  /\ _playwright = 0
  /\ _browser = 0
  /\ _semaphore = max_concurrency
  /\ _start_lock = NoProc
  /\ _pool_lock = NoProc
  /\ _context_pool = <<>>
  /\ _context_usage_count = EmptyDict
  /\ pwAlive = {}
  /\ brAlive = {}
  /\ ctxClosed = {}
  /\ owner = [c \in CtxIds |-> 0]
  /\ pc = [p \in Procs |-> IF p = Lifespan THEN "init" ELSE "idle"]
  /\ lphase = "start"
  /\ ctx = [p \in Procs |-> 0]
  /\ page = [p \in Procs |-> "none"]
  /\ todo = [p \in Procs |-> <<>>]
  /\ k = [p \in Procs |-> 0]
  /\ h = [p \in Procs |-> 0]
  /\ res = [p \in Procs |-> "none"]
  /\ rel = [p \in Procs |-> "none"]
  /\ stopMark = [p \in Procs |-> "none"]
  /\ calls = MaxCalls
  /\ cancels = MaxCancels
  /\ faults = MaxFaults

\* lifespan: await playwright_manager.start()  (main.py line 17)
LifespanStart ==
  /\ pc[Lifespan] = "init"
  /\ Commit(StartEnter(Cur, Lifespan))

\* lifespan after the yield: await playwright_manager.stop() (main.py line 24)
LifespanStop ==
  /\ pc[Lifespan] = "serving"
  /\ Commit(CleanupEnter([Cur EXCEPT !.lphase = "stop"], Lifespan))

\* A request coroutine calls run_in_page (api_router.py line 64); requests
\* are served once the lifespan startup is over.
Call(p) ==
  /\ pc[p] \in {"idle", "done"}
  /\ pc[Lifespan] = "serving" \/ lphase = "stop"
  /\ calls > 0
  /\ Commit(RunInPageEnter(
       [Cur EXCEPT !.calls = calls - 1, !.res[p] = "none", !.rel[p] = "none",
                   !.page[p] = "none",
                   !.stopMark[p] = IF pc[Lifespan] = "stopped" THEN "after"
                                   ELSE "none"], p))

\* The start lock is released to a waiter.
StartLockAcquired(p) ==
  /\ pc[p] = "start_wait"
  /\ _start_lock = NoProc
  /\ Commit(StartLocked([Cur EXCEPT !.start_lock = p], p))

\* await async_playwright().start() returns or raises (line 44); on success
\* the launch is issued (line 54).
PlaywrightStarted(p, ok) ==
  /\ pc[p] = "start_pw"
  /\ ok => FreePw(Cur) # {}
  /\ MayFail(ok, FreePw(Cur) # {})
  /\ Commit(Charge(IF ok
              THEN LET w == Fresh(FreePw(Cur)) IN
                   [Cur EXCEPT !.playwright = w, !.pwAlive = pwAlive \cup {w},
                               !.pc[p] = "start_launch", !.h[p] = w]
              ELSE StartFail(Cur, p),
            ok, FreePw(Cur) # {}))

\* await self._playwright.chromium.launch() returns or raises (line 54);
\* on success _started is set and the pool is filled (lines 56-59).
BrowserLaunched(p, ok) ==
  /\ pc[p] = "start_launch"
  /\ ok => (h[p] \in pwAlive /\ FreeBr(Cur) # {})
  /\ MayFail(ok, (h[p] \in pwAlive /\ FreeBr(Cur) # {}))
  /\ Commit(Charge(IF ok
              THEN LET b == Fresh(FreeBr(Cur)) IN
                   InitPoolNext([Cur EXCEPT !.browser = b,
                                            !.brAlive = brAlive \cup {b},
                                            !.started = TRUE],
                                p, initial_pool_size)
              ELSE StartFail(Cur, p),
            ok, (h[p] \in pwAlive /\ FreeBr(Cur) # {})))

\* await self._create_new_context() in _initialize_context_pool returns or
\* raises (lines 73-75).
ContextCreatedInit(p, ok) ==
  /\ pc[p] = "start_ctx"
  /\ ok => (h[p] \in brAlive /\ FreeCtx(Cur) # {})
  /\ MayFail(ok, (h[p] \in brAlive /\ FreeCtx(Cur) # {}))
  /\ Commit(Charge(IF ok
              THEN LET c == Fresh(FreeCtx(Cur)) IN
                   InitPoolNext([Cur EXCEPT
                                   !.pool = Append(_context_pool, c),
                                   !.count = DictSet(_context_usage_count, c, 0),
                                   !.owner[c] = h[p]],
                                p, k[p] - 1)
              ELSE StartFail(Cur, p),
            ok, (h[p] \in brAlive /\ FreeCtx(Cur) # {})))

\* The pool lock is released to a waiter of _cleanup_context_pool.
CleanupLockAcquired(p) ==
  /\ pc[p] = "cl_wait"
  /\ _pool_lock = NoProc
  /\ Commit(CleanupLoop([Cur EXCEPT !.pool_lock = p,
                                    !.todo[p] = _context_pool], p))

\* await context.close() in _cleanup_context_pool returns or raises (the
\* error is logged, lines 175-178): either way the loop goes on.
ContextClosedCleanup(p) ==
  /\ pc[p] = "cl_ctx"
  /\ Commit(CleanupLoop([Cur EXCEPT
                           !.ctxClosed = ctxClosed \cup {Head(todo[p])},
                           !.todo[p] = Tail(todo[p])], p))

\* await self._browser.close() returns (then self._browser = None) or
\* raises (logged, the handle stays) (lines 155-160).
BrowserClosed(p, ok) ==
  /\ pc[p] = "cl_browser"
  /\ MayFail(ok, TRUE)
  /\ Commit(Charge(CleanupPlaywright(
       IF ok
         THEN [Cur EXCEPT
                 !.brAlive = brAlive \ {h[p]},
                 !.ctxClosed = ctxClosed \cup {c \in CtxIds : owner[c] = h[p]},
                 !.browser = 0]
         ELSE Cur, p), ok, TRUE))

\* await self._playwright.stop() returns (then self._playwright = None) or
\* raises (logged) (lines 162-167).
PlaywrightStopped(p, ok) ==
  /\ pc[p] = "cl_pw"
  /\ MayFail(ok, TRUE)
  /\ Commit(Charge(CleanupDone(
       IF ok
         THEN [Cur EXCEPT !.pwAlive = pwAlive \ {h[p]}, !.playwright = 0]
         ELSE Cur, p), ok, TRUE))

\* A slot of the semaphore is released to a waiter.
SemAcquired(p) ==
  /\ pc[p] = "sem_wait"
  /\ SlotFree(Cur)
  /\ Commit(GetContext([Cur EXCEPT !.sem = _semaphore - 1], p))

\* The pool lock is released to a waiter of _get_context_from_pool.
GetLockAcquired(p) ==
  /\ pc[p] = "get_wait"
  /\ _pool_lock = NoProc
  /\ Commit(GetLocked([Cur EXCEPT !.pool_lock = p], p))

\* await context.close() of a worn-out context returns or raises (lines
\* 112-119): either way its counter is deleted and the loop goes on.
ContextClosedGet(p) ==
  /\ pc[p] = "get_close"
  /\ Commit(GetLocked([Cur EXCEPT
                         !.ctxClosed = ctxClosed \cup {h[p]},
                         !.count = DictDel(_context_usage_count, h[p])], p))

\* await self._create_new_context() in _get_context_from_pool returns or
\* raises (lines 122-124).
ContextCreatedGet(p, ok) ==
  /\ pc[p] = "get_create"
  /\ ok => (h[p] \in brAlive /\ FreeCtx(Cur) # {})
  /\ MayFail(ok, (h[p] \in brAlive /\ FreeCtx(Cur) # {}))
  /\ Commit(Charge(IF ok
              THEN LET c == Fresh(FreeCtx(Cur)) IN
                   GotContext([Cur EXCEPT
                                 !.count = DictSet(_context_usage_count, c, 0),
                                 !.owner[c] = h[p],
                                 !.pool_lock = NoProc], p, c)
              ELSE ExitSemaphore([Cur EXCEPT !.pool_lock = NoProc,
                                             !.res[p] = "error"], p),
            ok, (h[p] \in brAlive /\ FreeCtx(Cur) # {})))

\* await context.new_page() returns or raises (line 240).
PageCreated(p, ok) ==
  /\ pc[p] = "new_page"
  /\ ok => ctx[p] \notin ctxClosed
  /\ MayFail(ok, ctx[p] \notin ctxClosed)
  /\ Commit(Charge(IF ok
              THEN [Cur EXCEPT !.page[p] = "open", !.pc[p] = "page_setup"]
              ELSE Finally([Cur EXCEPT !.res[p] = "error"], p),
            ok, ctx[p] \notin ctxClosed))

\* add_init_script, route and set_extra_http_headers return or one raises
\* (lines 247-264); they touch no shared state, so the three awaits are one
\* suspension here. Then func(page) is started under wait_for (lines 266-267).
PageSetUp(p, ok) ==
  /\ pc[p] = "page_setup"
  /\ ok => ctx[p] \notin ctxClosed
  /\ MayFail(ok, ctx[p] \notin ctxClosed)
  /\ Commit(Charge(IF ok
              THEN [Cur EXCEPT !.pc[p] = "task"]
              ELSE Finally([Cur EXCEPT !.res[p] = "error"], p),
            ok, ctx[p] \notin ctxClosed))

TaskResults == {"ok", "task_error", "timeout"}

\* asyncio.wait_for(func(page), timeout) returns, raises func's error or
\* raises TimeoutError (line 267).
TaskSettled(p, r) ==
  /\ pc[p] = "task"
  /\ Commit(Finally([Cur EXCEPT !.res[p] = r], p))

\* await page.close() returns or raises (logged, lines 198-201); a close
\* that raises found the page already gone.
PageClosed(p) ==
  /\ pc[p] = "close_page"
  /\ Commit(ReleaseContext([Cur EXCEPT !.page[p] = "closed"], p))

\* The pool lock is released to a waiter of _return_context_to_pool.
ReturnLockAcquired(p) ==
  /\ pc[p] = "ret_wait"
  /\ _pool_lock = NoProc
  /\ Commit(ReturnLocked([Cur EXCEPT !.pool_lock = p], p))

\* await context.close() of a context the full pool has no room for returns
\* or raises (lines 140-148): either way its counter is deleted.
ContextClosedReturn(p) ==
  /\ pc[p] = "ret_close"
  /\ Commit(ExitSemaphore(
       [Cur EXCEPT !.ctxClosed = ctxClosed \cup {ctx[p]},
                   !.count = DictDel(_context_usage_count, ctx[p]),
                   !.pool_lock = NoProc, !.rel[p] = "closed"], p))

\* CancelledError is raised at the await the call is suspended on. It is a
\* BaseException: no `except Exception` catches it; `async with` and
\* `finally` blocks run as it propagates.
Cancelled(s, p) ==
  LET s1 == [s EXCEPT !.res[p] = "cancelled", !.cancels = s.cancels - 1]
      at == s.pc[p]
  IN CASE at \in {"start_wait", "sem_wait"} -> Finish(s1, p, "cancelled")
       [] at \in {"start_pw", "start_launch", "start_ctx", "cl_wait",
                  "cl_browser", "cl_pw"} ->
            Finish([s1 EXCEPT !.start_lock = NoProc], p, "cancelled")
       [] at = "cl_ctx" ->
            Finish([s1 EXCEPT !.start_lock = NoProc, !.pool_lock = NoProc,
                              !.todo[p] = <<>>], p, "cancelled")
       [] at \in {"get_wait", "close_page", "ret_wait"} -> ExitSemaphore(s1, p)
       [] at \in {"get_close", "get_create", "ret_close"} ->
            ExitSemaphore([s1 EXCEPT !.pool_lock = NoProc], p)
       [] at \in {"new_page", "page_setup", "task"} -> Finally(s1, p)

SuspendedPcs ==
  {"start_wait", "sem_wait", "start_pw", "start_launch", "start_ctx", "cl_wait",
   "cl_browser", "cl_pw", "cl_ctx", "get_wait", "close_page", "ret_wait",
   "get_close", "get_create", "ret_close", "new_page", "page_setup", "task"}

\* The caller of run_in_page is cancelled while the call is suspended.
Cancel(p) ==
  /\ pc[p] \in SuspendedPcs
  /\ cancels > 0
  /\ Commit(Cancelled(Cur, p))

MNext ==
  \/ LifespanStart
  \/ LifespanStop
  \/ \E p \in Ops : Call(p)
  \/ \E p \in Ops : StartLockAcquired(p)
  \/ \E p \in Procs, ok \in BOOLEAN : PlaywrightStarted(p, ok)
  \/ \E p \in Procs, ok \in BOOLEAN : BrowserLaunched(p, ok)
  \/ \E p \in Procs, ok \in BOOLEAN : ContextCreatedInit(p, ok)
  \/ \E p \in Procs : CleanupLockAcquired(p)
  \/ \E p \in Procs : ContextClosedCleanup(p)
  \/ \E p \in Procs, ok \in BOOLEAN : BrowserClosed(p, ok)
  \/ \E p \in Procs, ok \in BOOLEAN : PlaywrightStopped(p, ok)
  \/ \E p \in Ops : SemAcquired(p)
  \/ \E p \in Ops : GetLockAcquired(p)
  \/ \E p \in Ops : ContextClosedGet(p)
  \/ \E p \in Ops, ok \in BOOLEAN : ContextCreatedGet(p, ok)
  \/ \E p \in Ops, ok \in BOOLEAN : PageCreated(p, ok)
  \/ \E p \in Ops, ok \in BOOLEAN : PageSetUp(p, ok)
  \/ \E p \in Ops, r \in TaskResults : TaskSettled(p, r)
  \/ \E p \in Ops : PageClosed(p)
  \/ \E p \in Ops : ReturnLockAcquired(p)
  \/ \E p \in Ops : ContextClosedReturn(p)
  \/ \E p \in Ops : Cancel(p)


\* ------------------------------------------------------------ properties
\* Between the acquisition and the release of the semaphore (line 230).
InSemPcs ==
  {"get_wait", "get_close", "get_create", "new_page", "page_setup", "task",
   "close_page", "ret_wait", "ret_close"}

Active == {p \in Ops : pc[p] \in InSemPcs}

\* C3: in every reachable state the render operations between semaphore
\* acquisition and release number at most max_concurrency, whatever fails,
\* times out, is cancelled or overlaps with start and stop.
C3_ActiveWithinLimit ==
  /\ Cardinality(Active) <= max_concurrency
  /\ _semaphore = max_concurrency - Cardinality(Active)

\* An operation runs its task while another waits for a slot and stop() is
\* under way.
C3_Witness ==
  \E p, q \in Ops :
    pc[p] = "task" /\ pc[q] = "sem_wait" /\ lphase = "stop"
      /\ _semaphore = 0

\* C4: every call that obtained a context and a page ends with the page
\* closed and the context returned to the pool or closed, the page first.
C4_ReleaseOnEveryExit ==
  \A p \in Ops :
    /\ (pc[p] = "done" /\ page[p] # "none")
         => (page[p] = "closed" /\ rel[p] \in {"pool", "closed"})
    /\ rel[p] \in {"pool", "closed"} => page[p] # "open"

Holders(c) == {p \in Ops : ctx[p] = c}

\* The exclusivity part of C5: no context is held twice, none is held and
\* pooled, none is pooled twice.
ExclusiveCheckout ==
  /\ \A c \in CtxIds : Cardinality(Holders(c)) <= 1
  /\ \A p \in Ops : ctx[p] # 0 => ctx[p] \notin Range(_context_pool)
  /\ \A i, j \in DOMAIN _context_pool :
       _context_pool[i] = _context_pool[j] => i = j

\* C5: a context is checked out exclusively, and every checkout is followed
\* by exactly one release.
C5_ExclusiveCheckout ==
  /\ ExclusiveCheckout
  /\ \A p \in Ops :
       (pc[p] = "done" /\ rel[p] # "none") => rel[p] \in {"pool", "closed"}

\* C6: the pool never holds more than _max_pool_size contexts.
C6_PoolWithinBound == Len(_context_pool) <= _max_pool_size

InitPcs == {"start_pw", "start_launch", "start_ctx"}
CleanupPcs == {"cl_wait", "cl_ctx", "cl_browser", "cl_pw"}

\* C7: Stopped is terminal: a call made after stop() returned neither
\* restarts the browser nor runs its task, and a call that was waiting or
\* acquiring when stop() returned does not run its task.
C7_StoppedIsTerminal ==
  \A p \in Ops :
    /\ stopMark[p] = "after" => pc[p] \notin InitPcs \cup {"task"}
    /\ stopMark[p] = "during" => pc[p] # "task"

\* Inside start()'s `async with self._start_lock`.
InStart(p) ==
  \/ pc[p] \in InitPcs
  \/ pc[p] \in CleanupPcs /\ ~(p = Lifespan /\ lphase = "stop")

StartMutex ==
  /\ Cardinality({p \in Procs : InStart(p)}) <= 1
  /\ \A p \in Procs : InStart(p) => _start_lock = p

\* A caller whose turn at the lock comes while the manager is Running
\* launches nothing and leaves the lifecycle state as it is.
RunningStartIsNoOp ==
  \A p \in Procs :
    (pc[p] = "start_wait" /\ pc'[p] # "start_wait" /\ _started /\ _browser # 0)
      => /\ ~InStart(p)'
         /\ _started' /\ _browser' = _browser /\ _playwright' = _playwright
         /\ pwAlive' = pwAlive /\ brAlive' = brAlive

\* A caller that waited for another caller's start() never runs an
\* initialization of its own.
WaitersShareOutcome ==
  \A p \in Procs : pc[p] = "start_wait" => pc'[p] # "start_pw"

\* C8 as stated: start() is mutually exclusive, the callers that waited
\* observe the outcome of the one initialization, and start() on a Running
\* manager does nothing.
C8_OneInitialization ==
  /\ []StartMutex
  /\ [][WaitersShareOutcome]_mvars
  /\ [][RunningStartIsNoOp]_mvars

\* C8 as amended: start() is mutually exclusive and does nothing on a
\* Running manager; a caller that finds the manager not Running when its
\* turn comes runs an initialization of its own.
C8_StartExclusive ==
  /\ []StartMutex
  /\ [][RunningStartIsNoOp]_mvars

\* A caller waits for the lock, which is free again, and the manager is
\* Running: its start() is about to return at line 37.
C8_Witness ==
  \E p \in Ops :
    pc[p] = "start_wait" /\ _start_lock = NoProc /\ _started /\ _browser # 0

\* ============================================================ utils.py
\* Strings are sequences of one-character strings.
UpperCase == <<"A", "B", "C", "D", "E", "F", "G", "H", "I", "J", "K", "L", "M",
               "N", "O", "P", "Q", "R", "S", "T", "U", "V", "W", "X", "Y", "Z">>
LowerCase == <<"a", "b", "c", "d", "e", "f", "g", "h", "i", "j", "k", "l", "m",
               "n", "o", "p", "q", "r", "s", "t", "u", "v", "w", "x", "y", "z">>
Letters == Range(UpperCase) \cup Range(LowerCase)

\* str.lower()
LowerChar(c) ==
  IF c \in Range(UpperCase)
    THEN LowerCase[CHOOSE i \in DOMAIN UpperCase : UpperCase[i] = c]
    ELSE c
Lower(s) == [i \in 1..Len(s) |-> LowerChar(s[i])]

\* str.endswith(suf), str.startswith(pre), `sub in s`
EndsWith(s, suf) ==
  Len(s) >= Len(suf) /\ SubSeq(s, Len(s) - Len(suf) + 1, Len(s)) = suf
StartsWith(s, pre) == Len(s) >= Len(pre) /\ SubSeq(s, 1, Len(pre)) = pre
Contains(sub, s) ==
  \E i \in 1..(Len(s) - Len(sub) + 1) : SubSeq(s, i, i + Len(sub) - 1) = sub

\* The first index of s holding a character of S, or Len(s) + 1.
FirstIn(s, S) ==
  IF \E i \in 1..Len(s) : s[i] \in S
    THEN CHOOSE i \in 1..Len(s) : s[i] \in S /\ \A j \in 1..(i - 1) : s[j] \notin S
    ELSE Len(s) + 1
\* The last index of s holding a character of S, or 0.
LastIn(s, S) ==
  IF \E i \in 1..Len(s) : s[i] \in S
    THEN CHOOSE i \in 1..Len(s) :
           s[i] \in S /\ \A j \in (i + 1)..Len(s) : s[j] \notin S
    ELSE 0

\* settings.ip_blacklist and settings.allowed_domains (config.py lines 62-63)
ip_blacklist ==
  <<<<"b", "i", "l", "i", "b", "i", "l", "i", ".", "c", "o", "m">>,
    <<"y", "o", "u", "t", "u", "b", "e", ".", "c", "o", "m">>,
    <<"f", "a", "c", "e", "b", "o", "o", "k", ".", "c", "o", "m">>,
    <<"d", "o", "u", "y", "i", "n", ".", "c", "o", "m">>,
    <<"x", ".", "c", "o", "m">>,
    <<"h", "u", "a", "w", "e", "i", "c", "l", "o", "u", "d">>,
    <<"z", "h", "i", "h", "u">>>>
allowed_domains ==
  <<<<"c", "n">>,
    <<"c", "o", "m">>,
    <<"o", "r", "g">>,
    <<"g", "o", "v">>>>

SchemeChars == Letters \cup {"0", "1", "2", "3", "4", "5", "6", "7", "8", "9", "+", "-", "."}

\* urlparse(url): what is left of url once its scheme is split off.
AfterScheme(url) ==
  LET i == FirstIn(url, {":"}) IN
  IF i > 1 /\ i <= Len(url) /\ url[1] \in Letters
       /\ \A j \in 1..(i - 1) : url[j] \in SchemeChars
    THEN SubSeq(url, i + 1, Len(url))
    ELSE url

\* urlparse(url).netloc: after "//", up to the first "/", "?" or "#".
Netloc(url) ==
  LET r == AfterScheme(url) IN
  IF StartsWith(r, <<"/", "/">>)
    THEN LET rest == SubSeq(r, 3, Len(r)) IN
         SubSeq(rest, 1, FirstIn(rest, {"/", "?", "#"}) - 1)
    ELSE <<>>

\* _extract_hostname (lines 8-20): urlparse(url).hostname, lowercased; <<>>
\* stands for None. The host is what follows the last "@" of the netloc, up
\* to its first ":".
_extract_hostname(url) ==
  LET n == Netloc(url)
      hostinfo == SubSeq(n, LastIn(n, {"@"}) + 1, Len(n))
  IN Lower(SubSeq(hostinfo, 1, FirstIn(hostinfo, {":"}) - 1))

\* hostname.split(".")[-1]
LastLabel(hostname) ==
  SubSeq(hostname, LastIn(hostname, {"."}) + 1, Len(hostname))

\* One entry of the deny list matches the hostname (lines 40-45).
Blocked(hostname, blocked) ==
  LET b == Lower(blocked) IN
  \/ b = hostname
  \/ EndsWith(hostname, <<".">> \o b)
  \/ Contains(b, hostname)

\* check_allow_domain (lines 23-56)
check_allow_domain(url) ==
  LET hostname == _extract_hostname(url) IN
  IF hostname = <<>> THEN FALSE
  ELSE IF \/ EndsWith(url, <<".", "p", "d", "f">>)
          \/ EndsWith(url, <<".", "d", "o", "c", "x">>)
          \/ EndsWith(url, <<".", "x", "l", "s", "x">>)
    THEN FALSE
  ELSE IF \E i \in DOMAIN ip_blacklist : Blocked(hostname, ip_blacklist[i])
    THEN FALSE
  ELSE \E i \in DOMAIN allowed_domains : allowed_domains[i] = LastLabel(hostname)

\* --------------------------------------------------------- sample inputs
U_dynamic == <<"h", "t", "t", "p", "s", ":", "/", "/", "a", ".", "c", "o", "m", "/", "p">>   \* https://a.com/p
U_static == <<"h", "t", "t", "p", "s", ":", "/", "/", "a", ".", "c", "o", "m", "/", "p", ".", "h", "t", "m", "l">>   \* https://a.com/p.html
U_denied == <<"h", "t", "t", "p", "s", ":", "/", "/", "x", ".", "c", "o", "m", "/", "p">>   \* https://x.com/p
U_empty == <<>>   \* (the empty string)
U_tld == <<"h", "t", "t", "p", "s", ":", "/", "/", "a", ".", "i", "o", "/", "p">>   \* https://a.io/p
U_pdf == <<"h", "t", "t", "p", "s", ":", "/", "/", "a", ".", "c", "o", "m", "/", "p", ".", "p", "d", "f">>   \* https://a.com/p.pdf
U_query == <<"h", "t", "t", "p", "s", ":", "/", "/", "a", ".", "c", "o", "m", "/", "p", ".", "h", "t", "m", "l", "?", "q">>   \* https://a.com/p.html?q
U_upper == <<"h", "t", "t", "p", "s", ":", "/", "/", "A", ".", "c", "o", "m", "/", "P", ".", "H", "T", "M">>   \* https://A.com/P.HTM
SampleUrls == {U_dynamic, U_static, U_denied, U_empty, U_tld, U_pdf, U_query, U_upper}

\* =========================================================== models.py
Modes == {"low", "medium", "high", "ultra"}

\* SearchMode.context_size (lines 27-41)
context_size(m) ==
  CASE m = "low" -> 1000
    [] m = "medium" -> 2000
    [] m = "high" -> 3000
    [] m = "ultra" -> 5000
    [] OTHER -> 1000

\* ------------------------------------------------------------------ texts
\* A text other than a URL is known by where it comes from (id, of), its
\* length and how many of its characters are leading or trailing whitespace.
EmptyStr == [id |-> "", of |-> 0, ws |-> 0, len |-> 0]
None == [id |-> "None", of |-> 0, ws |-> 0, len |-> 0]
Dash == [id |-> "-", of |-> 0, ws |-> 0, len |-> 1]
Text(id, of, ws, len) ==
  IF len = 0 THEN EmptyStr ELSE [id |-> id, of |-> of, ws |-> ws, len |-> len]

\* bool(t): None and "" are falsy.
Truthy(t) == t # None /\ t.len > 0
\* t.strip()
Strip(t) == Text(t.id, t.of, 0, t.len - t.ws)
\* t[:n]
Take(t, n) == IF t.len <= n THEN t ELSE Text(t.id, t.of, Min(t.ws, n), n)
\* a or b
OrElse(a, b) == IF Truthy(a) THEN a ELSE b

FormatFloor(score) == [whole |-> score \div 10000, frac |-> (score \div 10) % 1000]

\* f"{score:.3f}" of a score given in ten-thousandths.
Format3(score) ==
  LET q == (score + 5) \div 10 IN [whole |-> q \div 1000, frac |-> q % 1000]

\* One upstream result: the i-th, for url u. A stub the upstream sent
\* without a title has no "title" key.
MkStub(i, u, shape, n) ==
  IF shape = "full"
    THEN [url |-> u, title |-> Text("title", i, 0, 10),
          content |-> Text("snippet", i, 0, n), score |-> 12338 + 5 * i]
    ELSE [url |-> u, content |-> Text("snippet", i, 0, n), score |-> 12338 + 5 * i]

StubShapes == {<<"full", 150>>, <<"full", 1200>>, <<"no_title", 150>>}

\* item.get(key, default)
Get(item, key, default) == IF key \in DOMAIN item THEN item[key] ELSE default

\* ----------------------------------------- the extraction collaborator
\* trafilatura.bare_extraction returns None or a document.
NoDoc == [doc |-> FALSE]
ArticleTexts ==
  {EmptyStr, Text("article", 0, 3, 3), Text("article", 0, 2, 1502),
   Text("article", 0, 0, 6000)}
Docs ==
  {[doc |-> TRUE, title |-> ti[1], text |-> tx, date |-> ti[2]] :
     ti \in {<<None, None>>, <<Text("doctitle", 0, 0, 12), Text("date", 0, 0, 10)>>},
     tx \in ArticleTexts}
BodyTexts == {EmptyStr, Text("body", 0, 4, 4), Text("body", 0, 1, 1201)}
PageTitle == Text("pagetitle", 0, 0, 8)

\* What the page and the extraction give one render: run_in_page fails before
\* or in the task (m), or the task runs to the extraction (er) and, when it
\* reads it, to the body's inner text.
RenderFailures == {"init_error", "error", "task_error", "timeout"}
RenderEnvs ==
  {[m |-> f] : f \in RenderFailures}
    \cup {[m |-> "ran", er |-> NoDoc]}
    \cup {[m |-> "ran", er |-> d] : d \in {x \in Docs : Truthy(x.text)}}
    \cup {[m |-> "ran", er |-> d, body |-> b] :
            d \in {x \in Docs : ~Truthy(x.text)}, b \in BodyTexts}

\* work reaches page.locator("body").inner_text() (lines 56-58) only past
\* result.title (line 51), which raises AttributeError when result is None.
ReadsBody(env) == env.er # NoDoc /\ ~Truthy(env.er.text)

\* What the network and the extraction give one light fetch.
LightEnvs == {[net |-> "error"]} \cup {[net |-> "ok", er |-> d] : d \in Docs \cup {NoDoc}}

\* ======================================================== api_router.py
Raised == [exc |-> TRUE]
Pending == [pending |-> TRUE]
IsDict(r) == r # Raised /\ r # Pending

\* work(page) (lines 37-62): Raised when result is None (line 51).
work(item, m, env) ==
  IF env.er = NoDoc THEN Raised
  ELSE LET title == OrElse(env.er.title, PageTitle)
           cleaned_body == IF ReadsBody(env) THEN env.body ELSE env.er.text
       IN [url |-> item.url, title |-> title,
           content |-> Take(Strip(cleaned_body), context_size(m)),
           error |-> None, publish_date |-> env.er.date]

\* fetch_with_playwright (lines 28-67): whatever run_in_page or work raises
\* ends in the except branch of line 67.
fetch_with_playwright(item, m, env) ==
  IF env.m = "ran" /\ work(item, m, env) # Raised
    THEN work(item, m, env)
    ELSE [url |-> item.url, title |-> Get(item, "title", Dash),
          content |-> Get(item, "content", Dash)]

ErrorText == [id |-> "str(e)", of |-> 0, ws |-> 0, len |-> 20]

\* fetch_html_content (lines 85-126): the except branch reads item["title"]
\* and item["content"], and raises KeyError for a stub without them.
fetch_html_content(item, m, env) ==
  IF env.net = "ok" /\ env.er # NoDoc
    THEN [url |-> item.url, title |-> OrElse(env.er.title, EmptyStr),
          content |-> Take(Strip(env.er.text), context_size(m)),
          error |-> None, publish_date |-> OrElse(env.er.date, EmptyStr)]
    ELSE IF {"title", "content"} \subseteq DOMAIN item
           THEN [url |-> item.url, title |-> item.title,
                 content |-> item.content, error |-> ErrorText,
                 publish_date |-> None]
           ELSE Raised

LowFields == {"url", "title", "content", "score"}

\* What a parser hands to search_view: a list, or an exception.
Returned(list) == [exc |-> FALSE, list |-> list]
Threw == [exc |-> TRUE, list |-> <<>>]

\* run_parser_as_low (lines 70-82): KeyError for a stub without one of the
\* keys.
run_parser_as_low(d) ==
  IF \E i \in DOMAIN d : ~(LowFields \subseteq DOMAIN d[i]) THEN Threw
  ELSE Returned([i \in DOMAIN d |->
          [url |-> d[i].url, title |-> d[i].title, content |-> d[i].content,
           score |-> Format3(d[i].score)]])

\* snippets = [data for data in data if data["url"]]  (line 134)
HasUrl(item) == item.url # <<>>
\* the filter of lines 136-140
Allowed(item) == check_allow_domain(item.url)
AllowedItemsUnfiltered(d) == SelectSeq(d, HasUrl)
allowed_items(d) == SelectSeq(SelectSeq(d, HasUrl), Allowed)

\* the test of lines 147-149
IsStatic(item) ==
  LET url == Lower(item.url) IN
  \/ EndsWith(url, <<".", "h", "t", "m", "l">>)
  \/ EndsWith(url, <<".", "h", "t", "m">>)
  \/ EndsWith(url, <<".", "s", "h", "t", "m", "l">>)
IsDynamic(item) == ~IsStatic(item)
static_html_items(d) == SelectSeq(allowed_items(d), IsStatic)
dynamic_items(d) == SelectSeq(allowed_items(d), IsDynamic)

MkTask(item, kind) ==
  [item |-> item, kind |-> kind, out |-> Pending, env |-> Pending]
MkTasks(items, kind) == [i \in DOMAIN items |-> MkTask(items[i], kind)]

\* all_tasks = static_tasks + dynamic_tasks  (lines 154-158)
all_tasks(d) ==
  MkTasks(static_html_items(d), "static") \o MkTasks(dynamic_items(d), "dynamic")

\* results_remain (line 161); a result that is an exception object (gather's
\* return_exceptions=True) cannot be subscripted: TypeError.
results_remain(ts) ==
  IF \E i \in DOMAIN ts : ts[i].out = Raised THEN Threw
  ELSE Returned([i \in DOMAIN ts |->
          [url |-> ts[i].out.url, title |-> ts[i].out.title,
           content |-> ts[i].out.content]])

EInit ==
  /\ mode \in Modes
  /\ \E n \in 0..MaxStubs :
       \E us \in [1..n -> SampleUrls], sh \in [1..n -> StubShapes] :
         data = [i \in 1..n |-> MkStub(i, us[i], sh[i][1], sh[i][2])]
  /\ epc = "request"
  /\ tasks = <<>>
  /\ snippets = <<>>
  /\ raised = FALSE

EIdle ==
  /\ mode = "low"
  /\ data = <<>>
  /\ epc = "idle"
  /\ tasks = <<>>
  /\ snippets = <<>>
  /\ raised = FALSE

\* SearchResponse(snippets=...) (line 214), or the empty response of an
\* except branch of search_view (lines 200-210).
Respond(r) ==
  /\ epc' = "done"
  /\ raised' = r.exc
  /\ snippets' = IF r.exc THEN <<>> ELSE r.list

\* search_view in Low mode (lines 191-192).
SearchLow ==
  /\ epc = "request" /\ mode = "low"
  /\ Respond(run_parser_as_low(data))
  /\ UNCHANGED <<mode, data, tasks>>
  /\ UNCHANGED mvars

\* search_view in Medium or High mode, up to the gather (lines 193-196,
\* 134-159); with nothing to wait for the gather returns at once.
SearchOther ==
  /\ epc = "request" /\ mode \in {"medium", "high"}
  /\ tasks' = all_tasks(data)
  /\ IF tasks' = <<>>
       THEN Respond(Returned(<<>>))
       ELSE epc' = "gather" /\ UNCHANGED <<snippets, raised>>
  /\ UNCHANGED <<mode, data>>
  /\ UNCHANGED mvars

\* search_view in any other mode (lines 197-198): the upstream's results.
SearchRaw ==
  /\ epc = "request" /\ mode \notin {"low", "medium", "high"}
  /\ Respond(Returned(data))
  /\ UNCHANGED <<mode, data, tasks>>
  /\ UNCHANGED mvars

\* One fetch_html_content coroutine settles.
LightSettled(i, env) ==
  /\ epc = "gather" /\ i \in DOMAIN tasks
  /\ tasks[i].kind = "static" /\ tasks[i].out = Pending
  /\ tasks' = [tasks EXCEPT ![i].out = fetch_html_content(tasks[i].item, mode, env),
                            ![i].env = env]
  /\ UNCHANGED <<mode, data, epc, snippets, raised>>
  /\ UNCHANGED mvars

\* One fetch_with_playwright coroutine settles.
RenderSettled(i, env) ==
  /\ epc = "gather" /\ i \in DOMAIN tasks
  /\ tasks[i].kind = "dynamic" /\ tasks[i].out = Pending
  /\ tasks' = [tasks EXCEPT ![i].out = fetch_with_playwright(tasks[i].item, mode, env),
                            ![i].env = env]
  /\ UNCHANGED <<mode, data, epc, snippets, raised>>
  /\ UNCHANGED mvars

\* asyncio.gather returns once every coroutine has settled (lines 159-162).
Gathered ==
  /\ epc = "gather"
  /\ \A i \in DOMAIN tasks : tasks[i].out # Pending
  /\ Respond(results_remain(tasks))
  /\ UNCHANGED <<mode, data, tasks>>
  /\ UNCHANGED mvars

ENext ==
  \/ SearchLow
  \/ SearchOther
  \/ SearchRaw
  \/ \E i \in 1..MaxStubs, env \in LightEnvs : LightSettled(i, env)
  \/ \E i \in 1..MaxStubs, env \in RenderEnvs : RenderSettled(i, env)
  \/ Gathered

\* The orchestration of one request, the render pool left aside: what
\* run_in_page does to a render is drawn from RenderEnvs.
EnrichInit == MInit /\ EInit
SpecEnrich == EnrichInit /\ [][ENext]_vars

\* ------------------------------------------------ properties of a request
Enriching == mode \in {"medium", "high"}
Rejected(item) == ~check_allow_domain(item.url)

\* C1: for every list of stubs and every mode the response holds exactly one
\* outcome per input stub: as many outcomes as stubs, none dropped (a stub
\* the policy rejects or with an empty url included), none duplicated.
C1_OneOutcomePerStub == epc = "done" => Len(snippets) = Len(data)

TimeoutKind == [id |-> "timeout", of |-> 0, ws |-> 0, len |-> 7]
TimedOut(i) == tasks[i].kind = "dynamic" /\ tasks[i].env.m = "timeout"

\* C9: when a render exceeds its timeout, the outcome for that stub in the
\* final result list has its error set to a timeout kind and its content
\* equal to the stub's snippet.
C9_TimeoutOutcome ==
  epc = "done" =>
    \A i \in DOMAIN tasks :
      TimedOut(i) =>
        /\ i \in DOMAIN snippets
        /\ snippets[i].content = tasks[i].item.content
        /\ "error" \in DOMAIN snippets[i]
        /\ snippets[i].error = TimeoutKind

\* The extraction gave a rendered page no usable text: no result at all, or
\* a result with empty text.
NoUsableText(i) ==
  /\ tasks[i].kind = "dynamic" /\ tasks[i].env.m = "ran"
  /\ (tasks[i].env.er = NoDoc \/ ~Truthy(tasks[i].env.er.text))

\* C10: for a rendered page whose extraction gives no usable text the
\* renderer reads the body's visible text before giving up, and when that
\* is empty too the content of the outcome is the stub's snippet.
C10_BodyFallback ==
  epc = "done" =>
    \A i \in DOMAIN tasks :
      NoUsableText(i) =>
        /\ ReadsBody(tasks[i].env)
        /\ ~Truthy(Strip(tasks[i].env.body)) =>
             /\ i \in DOMAIN snippets
             /\ snippets[i].content = tasks[i].item.content

\* C11: in every mode, every outcome of the returned list (a successful
\* fetch, a fallback after a failed fetch, a Low-mode stub outcome) has a
\* content of at most the mode's cap characters.
C11_ContentWithinCap ==
  epc = "done" =>
    \A j \in DOMAIN snippets : snippets[j].content.len <= context_size(mode)

\* The fetch of task i failed: the network or the extraction for a light
\* fetch; the pool, the page, the deadline or the extraction for a render.
Failed(i) ==
  IF tasks[i].kind = "static"
    THEN tasks[i].env.net = "error" \/ tasks[i].env.er = NoDoc
    ELSE tasks[i].env.m # "ran" \/ tasks[i].env.er = NoDoc

\* C12: every failure of one item (network error, timeout, extraction or
\* render failure, a stub without an expected field) becomes a degraded
\* outcome for that item with the stub's title and content and an error
\* string; none reaches the caller of the batch or loses the batch result.
C12_FailuresDegrade ==
  epc = "done" =>
    /\ ~raised
    /\ \A i \in DOMAIN tasks :
         Failed(i) =>
           /\ i \in DOMAIN snippets
           /\ snippets[i].title = Get(tasks[i].item, "title", Dash)
           /\ snippets[i].content = tasks[i].item.content
           /\ "error" \in DOMAIN snippets[i]
           /\ Truthy(snippets[i].error)

\* The batch is answered only once every dispatched fetch has settled: the
\* first clause of C13, which asyncio.gather (line 159) gives.
GatherWaitsForAll ==
  epc = "done" => \A i \in DOMAIN tasks : tasks[i].out # Pending

\* A render that has its context and is creating, preparing or using its
\* page.
InFlightPcs == {"new_page", "page_setup", "task"}

\* Render p, its lazy start having failed, closes the browser it launched.
ClosesBrowser(p) ==
  pc[p] = "cl_browser" /\ h[p] \in brAlive /\ h[p] \notin brAlive'

\* C13: the batch completes only after every dispatched fetch has settled,
\* and a timeout or failure of one dispatched operation cancels only that
\* operation: it never cancels, fails or changes the outcome of a sibling.
\* Here: the failure of one render never closes the browser under the
\* context a sibling render is working with.
C13_FailureStaysLocal ==
  [][\A p \in Ops :
       ClosesBrowser(p) =>
         \A q \in Ops \ {p} :
           ~(/\ pc[q] \in InFlightPcs
             /\ ctx[q] # 0 /\ ctx[q] \notin ctxClosed
             /\ owner[ctx[q]] = h[p])]_vars

\* The string s shows, with three decimals, the thousandth nearest to score.
ThreeDecimals(s, score) ==
  LET v == (s.whole * 1000 + s.frac) * 10 IN
  s.frac \in 0..999 /\ v - 5 < score /\ score < v + 5

\* C14: in Low mode no fetch of any kind is made: no light fetch and no
\* render is dispatched, no semaphore slot or context is taken, the pool and
\* the lifecycle state stay as they are; the outcomes are built from the
\* stub's fields alone, the score formatted to three decimals.
C14_LowFetchesNothing ==
  /\ [](mode = "low" =>
          /\ tasks = <<>>
          /\ epc = "done" /\ ~raised =>
               /\ Len(snippets) = Len(data)
               /\ \A j \in DOMAIN snippets :
                    /\ DOMAIN snippets[j] = LowFields
                    /\ snippets[j].url = data[j].url
                    /\ snippets[j].title = data[j].title
                    /\ snippets[j].content = data[j].content
                    /\ ThreeDecimals(snippets[j].score, data[j].score))
  /\ [][mode = "low" => UNCHANGED mvars]_vars

\* A Low request for two stubs has been answered with their two outcomes.
C14_Witness ==
  mode = "low" /\ epc = "done" /\ Len(data) = MaxStubs /\ Len(snippets) = MaxStubs

\* C15: in Ultra mode, as in Medium and High, the eligible stubs are
\* partitioned and dispatched to a fetcher, and the returned outcomes carry
\* fetched content of at most 5000 characters, not the raw upstream stubs.
C15_UltraEnriches ==
  mode = "ultra" /\ epc = "done" =>
    /\ Len(tasks) = Len(allowed_items(data))
    /\ \A j \in DOMAIN snippets :
         /\ "score" \notin DOMAIN snippets[j]
         /\ snippets[j].content.len <= 5000
    /\ ~raised => Len(snippets) = Len(tasks)

\* ------------------------------------------------- URLs built from parts
\* https://<host>/p<ext><tail>: hosts the policy accepts, denies by equality,
\* by sub-domain and by substring, a host outside the allowed suffixes and
\* no host at all; paths with and without an extension; a query string or
\* a fragment after the path.
UrlHosts ==
  {<<"a", ".", "c", "o", "m">>, <<"x", ".", "c", "o", "m">>, <<"m", ".", "z", "h", "i", "h", "u", ".", "c", "n">>, <<"e", "x", ".", "c", "o", "m">>, <<"A", ".", "C", "O", "M">>, <<"a", ".", "i", "o">>, <<>>}
UrlExts ==
  {<<>>, <<".", "h", "t", "m", "l">>, <<".", "h", "t", "m">>, <<".", "s", "h", "t", "m", "l">>, <<".", "x", "h", "t", "m", "l">>, <<".", "H", "T", "M", "L">>, <<".", "p", "d", "f">>, <<".", "d", "o", "c", "x">>, <<".", "x", "l", "s", "x">>}
UrlTails == {<<>>, <<"?", "q">>, <<"#", "f">>}
BuildUrl(host, ext, tail) ==
  <<"h", "t", "t", "p", "s", ":", "/", "/">> \o host \o <<"/", "p">> \o ext \o tail
BuiltUrls ==
  {BuildUrl(host, ext, tail) : host \in UrlHosts, ext \in UrlExts, tail \in UrlTails}

\* One request for one stub with a built URL.
UrlsInit ==
  /\ MInit
  /\ mode \in Modes
  /\ \E u \in BuiltUrls : data = <<MkStub(1, u, "full", 150)>>
  /\ epc = "request"
  /\ tasks = <<>>
  /\ snippets = <<>>
  /\ raised = FALSE

\* The orchestration of one request over the built URLs.
SpecUrls == UrlsInit /\ [][ENext]_vars

\* The path component of a URL: what follows the authority, up to the query
\* string or the fragment.
PathOf(url) ==
  LET r == AfterScheme(url)
      rest == IF StartsWith(r, <<"/", "/">>)
                THEN SubSeq(r, 3 + Len(Netloc(url)), Len(r)) ELSE r
  IN SubSeq(rest, 1, FirstIn(rest, {"?", "#"}) - 1)

DocumentExts == {<<".", "p", "d", "f">>, <<".", "d", "o", "c", "x">>, <<".", "x", "l", "s", "x">>}
StaticExts == {<<".", "h", "t", "m", "l">>, <<".", "h", "t", "m">>, <<".", "s", "h", "t", "m", "l">>, <<".", "x", "h", "t", "m", "l">>}

\* The policy as stated: a hostname can be extracted; the path does not end
\* in a document extension; no deny-list entry equals, is a parent domain
\* of, or is a substring of the hostname; the hostname's last label is in
\* the allow-list.
PolicyAccepts(url) ==
  LET hostname == _extract_hostname(url) IN
  /\ hostname # <<>>
  /\ \A ext \in DocumentExts : ~EndsWith(PathOf(url), ext)
  /\ \A i \in DOMAIN ip_blacklist :
       /\ ip_blacklist[i] # hostname
       /\ ~EndsWith(hostname, <<".">> \o ip_blacklist[i])
       /\ ~Contains(ip_blacklist[i], hostname)
  /\ LastLabel(hostname) \in Range(allowed_domains)

\* C16: check_allow_domain(url) is true exactly when a hostname can be
\* extracted, the URL's path does not end in .pdf, .docx or .xlsx whatever
\* query string or fragment follows it, no deny-list entry equals, is a
\* parent domain of or is a substring of the hostname, and the hostname's
\* last label is in the allow-list; a malformed URL gives false.
C16_PolicyIsExact ==
  Enriching /\ epc # "request" =>
    \A i \in DOMAIN data :
      /\ check_allow_domain(data[i].url) = PolicyAccepts(data[i].url)
      /\ (\E j \in DOMAIN tasks : tasks[j].item = data[i])
           = PolicyAccepts(data[i].url)

\* The path of the URL ends in a static-page extension, in any letter case.
PathIsStatic(url) == \E ext \in StaticExts : EndsWith(Lower(PathOf(url)), ext)

\* C18: in run_parser_as_other every eligible stub is dispatched to exactly
\* one fetcher: to fetch_html_content if and only if the path of its URL
\* ends in .html, .htm, .shtml or .xhtml (in any letter case, whatever query
\* string or fragment follows), to fetch_with_playwright otherwise.
C18_PartitionByPath ==
  Enriching /\ epc # "request" =>
    /\ Len(tasks) = Len(allowed_items(data))
    /\ \A i \in DOMAIN tasks :
         (tasks[i].kind = "static") = PathIsStatic(tasks[i].item.url)

\* ------------------------------------------ _return_context_to_pool alone
\* A running manager with context 1 checked out by render 1, and a pool
\* within its bound whose contexts have any counters.
ReleaseInit ==
  /\ EIdle
  /\ _started = TRUE
  /\ _playwright = 1
  /\ _browser = 1
  /\ _semaphore = max_concurrency - 1
  /\ _start_lock = NoProc
  /\ _pool_lock = NoProc
  /\ \E n \in 0.._max_pool_size :
       _context_pool \in
         {q \in [1..n -> CtxIds \ {1}] : \A i, j \in 1..n : q[i] = q[j] => i = j}
  /\ \E tracked \in BOOLEAN :
       _context_usage_count \in
         [Range(_context_pool) \cup (IF tracked THEN {1} ELSE {}) ->
            0.._max_context_reuse]
  /\ pwAlive = {1}
  /\ brAlive = {1}
  /\ ctxClosed = {}
  /\ owner = [c \in CtxIds |-> IF c = 1 \/ c \in Range(_context_pool) THEN 1 ELSE 0]
  /\ pc = [p \in Procs |->
             IF p = Lifespan THEN "serving" ELSE IF p = 1 THEN "release" ELSE "idle"]
  /\ lphase = "start"
  /\ ctx = [p \in Procs |-> IF p = 1 THEN 1 ELSE 0]
  /\ page = [p \in Procs |-> IF p = 1 THEN "closed" ELSE "none"]
  /\ todo = [p \in Procs |-> <<>>]
  /\ k = [p \in Procs |-> 0]
  /\ h = [p \in Procs |-> 0]
  /\ res = [p \in Procs |-> IF p = 1 THEN "ok" ELSE "none"]
  /\ rel = [p \in Procs |-> IF p = 1 THEN "held" ELSE "none"]
  /\ stopMark = [p \in Procs |-> "none"]
  /\ calls = 0
  /\ cancels = 0
  /\ faults = 0

\* await self._return_context_to_pool(context), the whole call (lines
\* 126-148), no other coroutine running: the first call of render p for its
\* context, then a second call for the same context.
ReturnContext(p) ==
  /\ pc[p] \in {"release", "released"}
  /\ _pool_lock = NoProc
  /\ pc' = [pc EXCEPT ![p] = IF pc[p] = "release" THEN "released"
                             ELSE "released_twice"]
  /\ IF PoolHasRoom(_context_pool)
       THEN /\ _context_pool' = Append(_context_pool, ctx[p])
            /\ _context_usage_count' = IncrementUse(_context_usage_count, ctx[p])
            /\ rel' = [rel EXCEPT ![p] = "pool"]
            /\ UNCHANGED ctxClosed
       ELSE /\ ctxClosed' = ctxClosed \cup {ctx[p]}
            /\ _context_usage_count' =
                 DictDel(IncrementUse(_context_usage_count, ctx[p]), ctx[p])
            /\ rel' = [rel EXCEPT ![p] = "closed"]
            /\ UNCHANGED _context_pool
  /\ UNCHANGED <<_started, _playwright, _browser, _semaphore, _start_lock,
                 _pool_lock, pwAlive, brAlive, owner, lphase, ctx, page, todo,
                 k, h, res, stopMark, calls, cancels, faults>>
  /\ UNCHANGED evars

ReleaseNext == \E p \in Ops : ReturnContext(p)
SpecRelease == ReleaseInit /\ [][ReleaseNext]_vars

Occurrences(pool, c) == Cardinality({i \in DOMAIN pool : pool[i] = c})
SecondRelease(p) == pc[p] = "released" /\ pc'[p] = "released_twice"

\* C17: releasing the same context twice (two _return_context_to_pool calls
\* for one checkout) has the effect on the pool of releasing it once: the
\* counter is incremented once only, the context is in the pool at most
\* once, and the pool stays within its bound.
C17_ReleaseIdempotent ==
  /\ [][\A p \in Ops :
          SecondRelease(p) =>
            /\ _context_usage_count' = _context_usage_count
            /\ _context_pool' = _context_pool]_vars
  /\ [](\A p \in Ops :
          pc[p] \in {"released", "released_twice"} =>
            /\ Occurrences(_context_pool, ctx[p]) <= 1
            /\ Len(_context_pool) <= _max_pool_size)

\* Render p is handed a context by _get_context_from_pool.
HandedOut(p) == ctx[p] = 0 /\ ctx'[p] # 0
\* Render p's context is put back into the pool.
PutBack(p) == rel[p] = "held" /\ rel'[p] = "pool"

\* C19: no context is handed out by _get_context_from_pool more than
\* _max_context_reuse times over its lifetime: a context is counted from
\* its creation, every release raises the released context's counter by
\* exactly one, and a context is handed out only while its counter is
\* below the budget (one at its budget is closed and replaced).
C19_ReuseBudget ==
  [][\A p \in Ops :
       /\ HandedOut(p) =>
            /\ ctx'[p] \in DOMAIN _context_usage_count'
            /\ _context_usage_count'[ctx'[p]] < _max_context_reuse
       /\ PutBack(p) =>
            /\ ctx[p] \in DOMAIN _context_usage_count
            /\ ctx[p] \in DOMAIN _context_usage_count'
            /\ _context_usage_count'[ctx[p]] = _context_usage_count[ctx[p]] + 1]_vars

\* Coroutine p takes the step.
Stepped(p) == pc'[p] # pc[p] \/ k'[p] # k[p] \/ todo'[p] # todo[p]
PoolMutated ==
  \/ _context_pool' # _context_pool
  \/ _context_usage_count' # _context_usage_count

\* C20: every mutation of the pool list and of the counter map happens
\* while _pool_lock is held by the mutating coroutine, so that no two
\* mutations of different coroutines interleave: while one coroutine holds
\* the lock, no other changes the pool or the map.
C20_MutationsUnderLock ==
  [][_pool_lock # NoProc /\ PoolMutated => Stepped(_pool_lock)]_vars

\* start() re-raises to its caller (line 66): coroutine p leaves start()'s
\* try block or its cleanup, and the step is neither the return after the
\* last pool context was appended nor a cancellation.
StartRaised(p) ==
  /\ pc[p] \in InitPcs \cup CleanupPcs
  /\ p = Lifespan => lphase = "start"
  /\ pc'[p] = IF p = Lifespan THEN "serving" ELSE "done"
  /\ res'[p] # "cancelled"
  /\ ~(pc[p] = "start_ctx" /\ Len(_context_pool') > Len(_context_pool))

\* Nothing of an initialization is left on the manager.
NothingLeft ==
  /\ ~_started
  /\ _browser = 0
  /\ _playwright = 0
  /\ _context_pool = <<>>
  /\ DOMAIN _context_usage_count = {}

\* C21: a start() that fails at any step aborts the whole transition: when
\* the exception reaches the caller of start(), _started is false, the
\* browser and Playwright handles are None and the pool and the counter map
\* are empty; the lifespan startup goes on to serve, and a lazy start that
\* failed ends the run_in_page call with the initialization error.
C21_FailedStartAborts ==
  [][\A p \in Procs :
       StartRaised(p) =>
         /\ NothingLeft'
         /\ p # Lifespan => res'[p] = "init_error"]_vars

\* Calls inside the lazy start of lines 222-224 (waiting for the init lock
\* or holding it).
LazyStarting == {p \in Ops : pc[p] = "start_wait" \/ InStart(p)}

\* Every call that is starting the pool or is past the semaphore holds one
\* of the slots taken.
SlotHeldWhileStarting ==
  max_concurrency - _semaphore >= Cardinality(Active \cup LazyStarting)

\* Call p, which waited for a slot, is admitted.
Admitted(p) ==
  pc[p] = "sem_wait" /\ pc'[p] # "sem_wait" /\ res'[p] # "cancelled"

\* An admitted call goes on to a context only if the manager is Running at
\* its admission, and to the lazy start otherwise.
RunningObservedAfterAdmission ==
  \A p \in Ops :
    Admitted(p) =>
      \/ _started /\ _browser # 0
      \/ pc'[p] \in {"start_wait"} \cup InitPcs

\* C22: run_in_page takes its semaphore slot first and makes the
\* running-state check and the lazy start while it holds the slot, so that
\* a context is only acquired from a pool observed Running after admission.
C22_AdmissionBeforeLazyStart ==
  /\ []SlotHeldWhileStarting
  /\ [][RunningObservedAfterAdmission]_vars

\* Context c was created by the browser the manager runs now and is open.
LiveContext(c) ==
  /\ _browser # 0
  /\ _browser \in brAlive
  /\ owner[c] = _browser
  /\ c \notin ctxClosed

\* C23: every context held in the pool was created by the currently
\* running browser, has not been closed and has an entry in the
\* reuse-counter map; while the manager is not started (browser None) the
\* pool and the counter map are empty, also after a render that was in
\* flight when stop() ran has released its context. The pool is looked at
\* while no coroutine is inside a `async with self._pool_lock` section.
C23_PoolHoldsLiveContexts ==
  _pool_lock = NoProc =>
    /\ \A i \in DOMAIN _context_pool :
         /\ LiveContext(_context_pool[i])
         /\ _context_pool[i] \in DOMAIN _context_usage_count
    /\ (~_started /\ _browser = 0) =>
         /\ _context_pool = <<>>
         /\ DOMAIN _context_usage_count = {}

\* stop() has returned and no run_in_page (hence no start()) was called
\* since.
StoppedAndLeftAlone ==
  /\ pc[Lifespan] = "stopped"
  /\ \A p \in Ops : stopMark[p] # "after"

\* C24: once stop() has returned and nothing is called afterwards, the
\* manager stays stopped: _started is false, the browser and Playwright
\* handles are None and the pool is empty, whatever start() or render was
\* in progress when stop() was called.
C24_StaysStopped ==
  StoppedAndLeftAlone =>
    /\ ~_started
    /\ _browser = 0
    /\ _playwright = 0
    /\ _context_pool = <<>>

\* The render pool under concurrent callers, no request being enriched.
Init == MInit /\ EIdle
Spec == Init /\ [][MNext]_vars

====
